---- MODULE Spec2Model ----
(***************************************************************************)
(* Model of legacy_setup.py of scs-python: the parsing of the custom       *)
(* command line flags, the detection of the BLAS / LAPACK libraries        *)
(* (get_infos, pkgconfig), the assembly of the extension modules           *)
(* (install_scs) and the build_ext subclass that merges the detected       *)
(* library information into every extension (build_ext_scs).               *)
(*                                                                         *)
(* Representation.  A library name, and the value of BLAS_LAPACK_LIBS, is  *)
(* a sequence of one-character strings, so that str.split(":") and the     *)
(* substring test  "mkl" in s  are computed as the code computes them.     *)
(* A path, a macro name and a macro value are strings.  A macro is a pair  *)
(* <<name, value>>, the value None being written "None".  A Python dict    *)
(* is a function whose DOMAIN is its set of keys.  A token of the output   *)
(* of pkg-config is the pair <<token[:2], token[2:]>>.  A glob(...) call   *)
(* is represented by its pattern.                                          *)
(***************************************************************************)
EXTENDS Integers, Sequences, FiniteSets, TLC

VARIABLES
    raw_argv,        \* sys.argv as the interpreter received it
    sys_argv,        \* sys.argv, rewritten at line 99
    unknown,         \* second result of parser.parse_known_args()
    args,            \* first result of parser.parse_known_args()
    platform,        \* platform.system()
    cuda_path,       \* os.environ.get("CUDA_PATH"), "" when unset
    env_lib_dirs,    \* module global env_lib_dirs, "" when unset or empty
    env_libs,        \* module global env_libs, << >> when unset or empty
    have_distutils,  \* whether numpy.distutils.system_info can be imported
    sysinfo,         \* what numpy's get_info(name) returns, per name
    pkgout,          \* what pkg-config returns, per package
    pc,              \* position of the run
    define_macros,   \* local list define_macros of install_scs
    include_dirs,    \* local list include_dirs of install_scs
    ext_modules,     \* local list ext_modules of install_scs
    constructed,     \* the extensions as they were passed to setup()
    copy,            \* build_ext_scs.copy
    infos,           \* the pair returned by the last call of get_infos
    built,           \* names passed to build_ext.build_extension, in order
    error,           \* the exception that ended the run, "none" if none
    n_get_infos,     \* number of calls of get_infos
    n_get_info,      \* number of calls of numpy's get_info
    n_pkgconfig      \* number of pkg-config processes launched

vars == <<raw_argv, sys_argv, unknown, args, platform, cuda_path,
          env_lib_dirs, env_libs, have_distutils, sysinfo, pkgout, pc,
          define_macros, include_dirs, ext_modules, constructed, copy,
          infos, built, error, n_get_infos, n_get_info, n_pkgconfig>>

inputVars == <<platform, cuda_path, env_lib_dirs, env_libs, have_distutils,
               sysinfo, pkgout>>

argvVars == <<raw_argv, sys_argv, unknown>>

(***************************************************************************)
(* Bounds of the model.                                                    *)
(***************************************************************************)
MaxArgs == 3      \* tokens on the command line after the script name
MaxEnvLen == 4    \* characters in the value of BLAS_LAPACK_LIBS

(***************************************************************************)
(* Python helpers.                                                         *)
(***************************************************************************)
SeqOf(S, n) == UNION {[1..k -> S] : k \in 0..n}

Range(s) == {s[i] : i \in DOMAIN s}

\* the slice s[i:] of a list, i counted from 0
SliceFrom(s, i) == SubSeq(s, i + 1, Len(s))

\* the slice s[0:i] of a list
SliceTo(s, i) == SubSeq(s, 1, i)

\* list.index(x), counted from 0: the first position holding x
Index(s, x) == (CHOOSE i \in DOMAIN s : s[i] = x /\ \A j \in 1..(i - 1) : s[j] # x) - 1

\* the test  p in s  on strings
IsSubstr(p, s) == \E i \in 0..(Len(s) - Len(p)) : SubSeq(s, i + 1, i + Len(p)) = p

\* str.split(sep) with a one-character separator
RECURSIVE Split(_, _)
Split(s, sep) ==
    IF sep \notin Range(s)
    THEN <<s>>
    ELSE <<SliceTo(s, Index(s, sep))>> \o Split(SliceFrom(s, Index(s, sep) + 1), sep)

EmptyDict == << >>

\* dict.pop(k, []) and dict.get(k, []): the reads of the code never depend on
\* the removal, every dict is read once per key
Pop(d, k) == IF k \in DOMAIN d THEN d[k] ELSE << >>

DictSet(d, k, v) == [y \in DOMAIN d \cup {k} |-> IF y = k THEN v ELSE d[y]]

\* kw.setdefault(k, []).append(v)
SetDefaultAppend(d, k, v) == DictSet(d, k, Pop(d, k) \o <<v>>)

(***************************************************************************)
(* Library names.                                                          *)
(***************************************************************************)
MKL == <<"m", "k", "l">>
N_rt == <<"r", "t">>
N_cudart == <<"c", "u", "d", "a", "r", "t">>
N_cublas == <<"c", "u", "b", "l", "a", "s">>
N_cusparse == <<"c", "u", "s", "p", "a", "r", "s", "e">>
N_blas == <<"b", "l", "a", "s">>
N_lapack == <<"l", "a", "p", "a", "c", "k">>
N_mkl_rt == <<"m", "k", "l", "_", "r", "t">>

SCS_ARG_MARK == "--scs"

(***************************************************************************)
(* FlagParser: lines 12-99.                                                *)
(***************************************************************************)
\* the option strings of the store_true arguments and of --no-gpu-atrans
OptionStrings ==
    {SCS_ARG_MARK, "--gpu", "--mkl", "--cudss", "--openmp", "--float",
     "--extraverbose", "--no-gpu-atrans", "--int", "--blas64"}

\* the solver-specific flags: every option but the marker
SolverFlags == OptionStrings \ {SCS_ARG_MARK}

\* parser.parse_known_args()[0] on sys.argv[1:]
ParseKnownArgs(argv) ==
    LET given == Range(SliceFrom(argv, 1)) IN
    [scs          |-> SCS_ARG_MARK \in given,
     gpu          |-> "--gpu" \in given,
     mkl          |-> "--mkl" \in given,
     cudss        |-> "--cudss" \in given,
     openmp       |-> "--openmp" \in given,
     float32      |-> "--float" \in given,
     extraverbose |-> "--extraverbose" \in given,
     gpu_atrans   |-> "--no-gpu-atrans" \notin given,
     int32        |-> "--int" \in given,
     blas64       |-> "--blas64" \in given]

IsUnknownArg(t) == t \notin OptionStrings

\* parser.parse_known_args()[1]: the tokens no option recognises, in order
UnknownArgs(argv) == SelectSeq(SliceFrom(argv, 1), IsUnknownArg)

\* StripScsArgs cutting after the marker instead of before it
StripScsArgsKeepMark(argv) ==
    IF SCS_ARG_MARK \in Range(argv)
    THEN SliceTo(argv, Index(argv, SCS_ARG_MARK) + 1)
    ELSE argv

\* lines 98-99: sys.argv = sys.argv[0 : sys.argv.index(SCS_ARG_MARK)]
StripScsArgs(argv) ==
    IF SCS_ARG_MARK \in Range(argv)
    THEN SliceTo(argv, Index(argv, SCS_ARG_MARK))
    ELSE argv

(***************************************************************************)
(* DependencyResolver: pkgconfig (lines 104-113), get_infos (115-151).     *)
(***************************************************************************)
\* flag_map.get(token[:2]); an unknown prefix gives the key None
FlagMapGet(f) ==
    CASE f = "-I" -> "include_dirs"
      [] f = "-L" -> "library_dirs"
      [] f = "-l" -> "libraries"
      [] OTHER    -> "None"

\* the loop of lines 111-112 over the tokens of the output
RECURSIVE PkgTokens(_, _)
PkgTokens(tokens, kw) ==
    IF tokens = << >>
    THEN kw
    ELSE PkgTokens(Tail(tokens),
                   SetDefaultAppend(kw, FlagMapGet(Head(tokens)[1]), Head(tokens)[2]))

\* pkgconfig(package, {}): ok is FALSE when the Exception of line 109 is raised
Pkgconfig(package) ==
    IF pkgout[package].retcode # 0
    THEN [ok |-> FALSE, kw |-> EmptyDict]
    ELSE [ok |-> TRUE, kw |-> PkgTokens(pkgout[package].output, EmptyDict)]

\* lines 119-124
EnvVars ==
    LET d1 == IF env_lib_dirs # ""
              THEN DictSet(EmptyDict, "library_dirs", <<env_lib_dirs>>)
              ELSE EmptyDict
    IN  IF env_libs # << >>
        THEN DictSet(d1, "libraries", Split(env_libs, ":"))
        ELSE d1

\* get_info("blas_opt"), then get_info("blas") if that is empty; the same
\* for lapack (lines 139-147)
NumpyInfo(opt, generic) ==
    IF DOMAIN sysinfo[opt] # {} THEN sysinfo[opt] ELSE sysinfo[generic]

NumpyQueries(opt) == IF DOMAIN sysinfo[opt] # {} THEN 1 ELSE 2

\* GetInfos whose override needs BLAS_LAPACK_LIB_PATHS to be set
GetInfosDirsOnly ==
    IF env_lib_dirs # ""
    THEN [ok |-> TRUE, blas |-> EnvVars, lapack |-> EmptyDict,
          n_get_info |-> 0, n_pkgconfig |-> 0]
    ELSE IF ~have_distutils
    THEN IF ~Pkgconfig("blas").ok
         THEN [ok |-> FALSE, blas |-> EmptyDict, lapack |-> EmptyDict,
               n_get_info |-> 0, n_pkgconfig |-> 1]
         ELSE [ok |-> Pkgconfig("lapack").ok,
               blas |-> Pkgconfig("blas").kw, lapack |-> Pkgconfig("lapack").kw,
               n_get_info |-> 0, n_pkgconfig |-> 2]
    ELSE [ok |-> TRUE,
          blas |-> NumpyInfo("blas_opt", "blas"),
          lapack |-> NumpyInfo("lapack_opt", "lapack"),
          n_get_info |-> NumpyQueries("blas_opt") + NumpyQueries("lapack_opt"),
          n_pkgconfig |-> 0]

\* get_infos(): the pair it returns, whether it raised, and the detection
\* calls it made
GetInfos ==
    IF env_lib_dirs # "" \/ env_libs # << >>
    THEN [ok |-> TRUE, blas |-> EnvVars, lapack |-> EmptyDict,
          n_get_info |-> 0, n_pkgconfig |-> 0]
    ELSE IF ~have_distutils
    THEN IF ~Pkgconfig("blas").ok
         THEN [ok |-> FALSE, blas |-> EmptyDict, lapack |-> EmptyDict,
               n_get_info |-> 0, n_pkgconfig |-> 1]
         ELSE [ok |-> Pkgconfig("lapack").ok,
               blas |-> Pkgconfig("blas").kw, lapack |-> Pkgconfig("lapack").kw,
               n_get_info |-> 0, n_pkgconfig |-> 2]
    ELSE [ok |-> TRUE,
          blas |-> NumpyInfo("blas_opt", "blas"),
          lapack |-> NumpyInfo("lapack_opt", "lapack"),
          n_get_info |-> NumpyQueries("blas_opt") + NumpyQueries("lapack_opt"),
          n_pkgconfig |-> 0]

(***************************************************************************)
(* VariantAssembler: install_scs, lines 203-357.                           *)
(***************************************************************************)
\* lines 204, 214-215
ExtraCompileArgs == <<"-O3">> \o (IF args.openmp THEN <<"-fopenmp">> ELSE << >>)

\* lines 205, 216
ExtraLinkArgs == IF args.openmp THEN <<"-fopenmp">> ELSE << >>

\* lines 206, 219-220
Libraries == IF platform = "Linux" THEN <<N_rt>> ELSE << >>

\* lines 207-211
Sources == <<"scs/scspy.c", "scs_source/src/*.c", "scs_source/linsys/*.c">>

\* line 212
BaseIncludeDirs == <<"scs_source/include", "scs_source/linsys">>

\* DlongMacros without the test of args.gpu
DlongMacrosInt32Only ==
    IF ~args.int32 THEN << <<"DLONG", "1">> >> ELSE << >>

\* lines 227-228
DlongMacros ==
    IF ~args.int32 /\ ~args.gpu THEN << <<"DLONG", "1">> >> ELSE << >>

\* lines 213, 221-228
BaseDefineMacros ==
    << <<"PYTHON", "None">>, <<"CTRLC", "1">> >>
    \o (IF args.float32 THEN << <<"SFLOAT", "1">> >> ELSE << >>)
    \o (IF args.extraverbose THEN << <<"VERBOSITY", "999">> >> ELSE << >>)
    \o (IF args.blas64 THEN << <<"BLAS64", "1">> >> ELSE << >>)
    \o DlongMacros

\* Extension(...): depends, extra_compile_args and extra_link_args are the
\* same in every call of install_scs
Extension(name, sources, macros, incs, libdirs, libs) ==
    [name               |-> name,
     sources            |-> sources,
     depends            |-> <<"scs/*.h">>,
     define_macros      |-> macros,
     include_dirs       |-> incs,
     library_dirs       |-> libdirs,
     libraries          |-> libs,
     extra_compile_args |-> ExtraCompileArgs,
     extra_link_args    |-> ExtraLinkArgs]

\* lines 230-247
ScsDirect(macros, incs) ==
    Extension("_scs_direct",
              Sources \o <<"scs_source/linsys/cpu/direct/*.c",
                           "scs_source/linsys/external/amd/*.c",
                           "scs_source/linsys/external/qdldl/*.c">>,
              macros,
              incs \o <<"scs_source/linsys/cpu/direct/",
                        "scs_source/linsys/external/amd",
                        "scs_source/linsys/external/dqlql">>,
              << >>, Libraries)

\* lines 249-259
ScsIndirect(macros, incs) ==
    Extension("_scs_indirect",
              Sources \o <<"scs_source/linsys/cpu/indirect/*.c">>,
              macros \o << <<"PY_INDIRECT", "None">>, <<"INDIRECT", "1">> >>,
              incs \o <<"scs_source/linsys/cpu/indirect/">>,
              << >>, Libraries)

\* lines 273-287
ScsGpu(macros, incs, libdirs) ==
    Extension("_scs_gpu",
              Sources \o <<"scs_source/linsys/gpu/*.c",
                           "scs_source/linsys/gpu/indirect/*.c">>,
              macros \o << <<"PY_GPU", "None">>, <<"INDIRECT", "1">> >>,
              incs \o <<"scs_source/linsys/gpu/", "scs_source/linsys/gpu/indirect">>,
              libdirs,
              Libraries \o <<N_cudart, N_cublas, N_cusparse>>)

\* lines 305-314
ScsMkl(macros, incs) ==
    Extension("_scs_mkl",
              Sources \o <<"scs_source/linsys/mkl/direct/*.c">>,
              macros \o << <<"PY_MKL", "None">> >>,
              incs \o <<"scs_source/linsys/mkl/direct/">>,
              << >>, Libraries)

\* lines 319-328
ScsCudss(macros, incs) ==
    Extension("_scs_cudss",
              Sources \o <<"scs_source/linsys/cudss/direct/*.c">>,
              macros \o << <<"PY_CUDSS", "None">> >>,
              incs \o <<"scs_source/linsys/cudss/direct/">>,
              << >>, Libraries)

\* lines 265-270: the CUDA include directory added to include_dirs
CudaIncludeDirs ==
    IF platform = "Windows"
    THEN <<cuda_path \o "/include">>
    ELSE <<"/usr/local/cuda/include">>

\* lines 264-270
CudaLibraryDirs ==
    IF platform = "Windows"
    THEN <<cuda_path \o "/lib/x64">>
    ELSE <<"/usr/local/cuda/lib", "/usr/local/cuda/lib64">>

\* lines 271-272
GpuTransposeMacros ==
    IF args.gpu_atrans THEN << <<"GPU_TRANSPOSE_MAT", "1">> >> ELSE << >>

\* the test of line 297 on a list of library names
AnyMkl(libs) == \E i \in DOMAIN libs : IsSubstr(MKL, libs[i])

\* lines 293-296: blibs, None being the empty list under  (blibs or [])
Blibs(blas_info, lapack_info) ==
    IF "libraries" \in DOMAIN blas_info /\ "libraries" \in DOMAIN lapack_info
    THEN blas_info["libraries"] \o lapack_info["libraries"]
    ELSE << >>

\* MklMissing that only judges a list that was built (blibs is not None)
MklMissingWhenListed(blas_info, lapack_info) ==
    /\ "libraries" \in DOMAIN blas_info
    /\ "libraries" \in DOMAIN lapack_info
    /\ ~AnyMkl(Blibs(blas_info, lapack_info))

\* line 297: whether the ValueError of line 298 is raised
MklMissing(blas_info, lapack_info) == ~AnyMkl(Blibs(blas_info, lapack_info))

\* Abort with the exception of finalize_options reported and the build resumed
AbortUnlessFinalizing(e) ==
    /\ pc' = IF pc = "finalize" THEN "build" ELSE "aborted"
    /\ error' = e

\* an exception leaves install_scs or setup(): the run ends
Abort(e) ==
    /\ pc' = "aborted"
    /\ error' = e

\* one call of get_infos with result r: the counters of the detection work
Detect(r) ==
    /\ n_get_infos' = n_get_infos + 1
    /\ n_get_info' = n_get_info + r.n_get_info
    /\ n_pkgconfig' = n_pkgconfig + r.n_pkgconfig
    /\ infos' = IF r.ok THEN <<r.blas, r.lapack>> ELSE infos

\* lines 204-261: the shared lists, the direct and the indirect extension
InstallBase ==
    /\ pc = "install"
    /\ define_macros' = BaseDefineMacros
    /\ include_dirs' = BaseIncludeDirs
    /\ ext_modules' = <<ScsDirect(BaseDefineMacros, BaseIncludeDirs),
                        ScsIndirect(BaseDefineMacros, BaseIncludeDirs)>>
    /\ pc' = "gpu"
    /\ UNCHANGED <<argvVars, args, inputVars, constructed, copy, infos, built,
                   error, n_get_infos, n_get_info, n_pkgconfig>>

\* lines 263-288: include_dirs and define_macros are extended in place
GpuBranch ==
    /\ pc = "gpu"
    /\ IF ~args.gpu
       THEN /\ pc' = "mkl"
            /\ UNCHANGED <<define_macros, include_dirs, ext_modules, error>>
       ELSE IF platform = "Windows" /\ cuda_path = ""
       THEN /\ Abort("KeyError")
            /\ UNCHANGED <<define_macros, include_dirs, ext_modules>>
       ELSE /\ include_dirs' = include_dirs \o CudaIncludeDirs
            /\ define_macros' = define_macros \o GpuTransposeMacros
            /\ ext_modules' = ext_modules
                   \o <<ScsGpu(define_macros', include_dirs', CudaLibraryDirs)>>
            /\ pc' = "mkl"
            /\ UNCHANGED error
    /\ UNCHANGED <<argvVars, args, inputVars, constructed, copy, infos, built,
                   n_get_infos, n_get_info, n_pkgconfig>>

\* lines 290-315
MklBranch ==
    /\ pc = "mkl"
    /\ IF ~args.mkl
       THEN /\ pc' = "cudss"
            /\ UNCHANGED <<ext_modules, error, infos, n_get_infos, n_get_info,
                           n_pkgconfig>>
       ELSE /\ Detect(GetInfos)
            /\ IF ~GetInfos.ok
               THEN Abort("Exception") /\ UNCHANGED ext_modules
               ELSE IF MklMissing(GetInfos.blas, GetInfos.lapack)
               THEN Abort("ValueError") /\ UNCHANGED ext_modules
               ELSE /\ ext_modules' = ext_modules
                          \o <<ScsMkl(define_macros, include_dirs)>>
                    /\ pc' = "cudss"
                    /\ UNCHANGED error
    /\ UNCHANGED <<argvVars, args, inputVars, define_macros, include_dirs,
                   constructed, copy, built>>

\* CudssBranch with the flag of the mkl branch tested in its place
CudssBranchMklFlag ==
    /\ pc = "cudss"
    /\ ext_modules' = IF args.mkl
                      THEN ext_modules \o <<ScsCudss(define_macros, include_dirs)>>
                      ELSE ext_modules
    /\ pc' = "setup"
    /\ UNCHANGED <<argvVars, args, inputVars, define_macros, include_dirs,
                   constructed, copy, infos, built, error, n_get_infos,
                   n_get_info, n_pkgconfig>>

\* lines 317-329
CudssBranch ==
    /\ pc = "cudss"
    /\ ext_modules' = IF args.cudss
                      THEN ext_modules \o <<ScsCudss(define_macros, include_dirs)>>
                      ELSE ext_modules
    /\ pc' = "setup"
    /\ UNCHANGED <<argvVars, args, inputVars, define_macros, include_dirs,
                   constructed, copy, infos, built, error, n_get_infos,
                   n_get_info, n_pkgconfig>>

\* lines 332-357: ext_modules is handed to setup(), which runs build_ext
CallSetup ==
    /\ pc = "setup"
    /\ constructed' = ext_modules
    /\ pc' = "finalize"
    /\ UNCHANGED <<argvVars, args, inputVars, define_macros, include_dirs,
                   ext_modules, copy, infos, built, error, n_get_infos,
                   n_get_info, n_pkgconfig>>

(***************************************************************************)
(* BuildCoordinator: build_ext_scs, lines 161-200.                         *)
(***************************************************************************)
\* line 168
NumpyInclude == <<"numpy/core/include">>

\* lines 168-192: self.copy for the pair (blas_info, lapack_info)
MergedCopy(blas_info, lapack_info) ==
    IF DOMAIN blas_info = {} /\ DOMAIN lapack_info = {}
    THEN [include_dirs |-> NumpyInclude]
    ELSE [include_dirs       |-> NumpyInclude \o Pop(blas_info, "include_dirs")
                                   \o Pop(lapack_info, "include_dirs"),
          define_macros      |-> << <<"USE_LAPACK", "None">> >>
                                   \o Pop(blas_info, "define_macros")
                                   \o Pop(lapack_info, "define_macros"),
          library_dirs       |-> Pop(blas_info, "library_dirs")
                                   \o Pop(lapack_info, "library_dirs"),
          libraries          |-> Pop(blas_info, "libraries")
                                   \o Pop(lapack_info, "libraries"),
          extra_link_args    |-> Pop(blas_info, "extra_link_args")
                                   \o Pop(lapack_info, "extra_link_args"),
          extra_compile_args |-> Pop(blas_info, "extra_compile_args")
                                   \o Pop(lapack_info, "extra_compile_args")]

\* ExtendExt that leaves the gpu extension as it was constructed
ExtendExtCpuOnly(ext, c) ==
    IF ext.name = "_scs_gpu"
    THEN ext
    ELSE [k \in DOMAIN ext |-> IF k \in DOMAIN c THEN ext[k] \o c[k] ELSE ext[k]]

\* lines 195-198: every list of self.copy is appended to the extension's
ExtendExt(ext, c) ==
    [k \in DOMAIN ext |-> IF k \in DOMAIN c THEN ext[k] \o c[k] ELSE ext[k]]

\* lines 162-192
FinalizeOptions ==
    /\ pc = "finalize"
    /\ Detect(GetInfos)
    /\ IF ~GetInfos.ok
       THEN Abort("Exception") /\ UNCHANGED copy
       ELSE /\ copy' = MergedCopy(GetInfos.blas, GetInfos.lapack)
            /\ pc' = "build"
            /\ UNCHANGED error
    /\ UNCHANGED <<argvVars, args, inputVars, define_macros, include_dirs,
                   ext_modules, constructed, built>>

\* lines 194-200, for the next extension of ext_modules
BuildExtension ==
    /\ pc = "build"
    /\ Len(built) < Len(ext_modules)
    /\ ext_modules' = [ext_modules EXCEPT
                          ![Len(built) + 1] = ExtendExt(@, copy)]
    /\ built' = Append(built, ext_modules[Len(built) + 1].name)
    /\ UNCHANGED <<argvVars, args, inputVars, pc, define_macros, include_dirs,
                   constructed, copy, infos, error, n_get_infos, n_get_info,
                   n_pkgconfig>>

\* build_ext has gone through every extension: setup() returns
SetupReturns ==
    /\ pc = "build"
    /\ Len(built) = Len(ext_modules)
    /\ pc' = "done"
    /\ UNCHANGED <<argvVars, args, inputVars, define_macros, include_dirs,
                   ext_modules, constructed, copy, infos, built, error,
                   n_get_infos, n_get_info, n_pkgconfig>>

(***************************************************************************)
(* The inputs of a run.                                                    *)
(***************************************************************************)
\* results of numpy's get_info
PlainInfo ==
    [libraries |-> <<N_blas>>, library_dirs |-> <<"/usr/lib">>]

LapackInfo ==
    [libraries |-> <<N_lapack>>, library_dirs |-> <<"/usr/lib">>]

MklInfo ==
    [libraries     |-> <<N_mkl_rt>>,
     library_dirs  |-> <<"/opt/intel/mkl/lib">>,
     include_dirs  |-> <<"/opt/intel/mkl/include">>,
     define_macros |-> << <<"SCIPY_MKL_H", "None">>, <<"HAVE_CBLAS", "None">> >>]

\* an info without a libraries key, as for the Accelerate framework
AccelerateInfo ==
    [extra_compile_args |-> <<"-msse3">>,
     extra_link_args    |-> <<"-Wl,-framework", "-Wl,Accelerate">>,
     define_macros      |-> << <<"NO_ATLAS_INFO", "3">> >>]

\* get_info by name; the generic entry is only read when the optimized one
\* is empty
SysInfos ==
    {[blas_opt |-> b[1], blas |-> b[2], lapack_opt |-> l[1], lapack |-> l[2]] :
        b \in {<<MklInfo, EmptyDict>>, <<AccelerateInfo, EmptyDict>>,
               <<EmptyDict, PlainInfo>>, <<EmptyDict, EmptyDict>>},
        l \in {<<MklInfo, EmptyDict>>, <<AccelerateInfo, EmptyDict>>,
               <<EmptyDict, LapackInfo>>, <<EmptyDict, EmptyDict>>}}

\* results of pkg-config: the exit status and the tokens of the output
PkgResults(name) ==
    {[retcode |-> 1, output |-> << >>],
     [retcode |-> 0, output |-> << >>],
     [retcode |-> 0, output |-> << <<"-L", "/usr/lib">>, <<"-l", name>> >>],
     [retcode |-> 0, output |-> << <<"-I", "/opt/intel/mkl/include">>,
                                   <<"-l", N_mkl_rt>>, <<"-p", "thread">> >>]}

PkgOuts == {[blas |-> b, lapack |-> l] :
               b \in PkgResults(N_blas), l \in PkgResults(N_lapack)}

\* values of BLAS_LAPACK_LIBS in the runs of install_scs
EnvLibsValues ==
    {<< >>, N_blas \o <<":">> \o N_lapack, N_mkl_rt, N_blas \o <<":">> \o N_mkl_rt}

DefaultSysInfo ==
    [blas_opt |-> PlainInfo, blas |-> PlainInfo,
     lapack_opt |-> LapackInfo, lapack |-> LapackInfo]

DefaultPkgOut ==
    [blas   |-> [retcode |-> 0, output |-> << <<"-l", N_blas>> >>],
     lapack |-> [retcode |-> 0, output |-> << <<"-l", N_lapack>> >>]]

\* the three tiers of get_infos: the environment override, numpy, pkg-config
DepEnvs ==
    {[env_lib_dirs |-> d, env_libs |-> l, have_distutils |-> TRUE,
      sysinfo |-> DefaultSysInfo, pkgout |-> DefaultPkgOut] :
        d \in {"", "/opt/lib"}, l \in EnvLibsValues}
    \cup
    {[env_lib_dirs |-> "", env_libs |-> << >>, have_distutils |-> TRUE,
      sysinfo |-> s, pkgout |-> DefaultPkgOut] : s \in SysInfos}
    \cup
    {[env_lib_dirs |-> "", env_libs |-> << >>, have_distutils |-> FALSE,
      sysinfo |-> DefaultSysInfo, pkgout |-> p] : p \in PkgOuts}

\* platform.system() and CUDA_PATH, which is only read on Windows
Hosts ==
    {<<"Linux", "">>, <<"Darwin", "">>, <<"Windows", "">>,
     <<"Windows", "C:/CUDA">>}

Flags ==
    [scs : {TRUE}, gpu : BOOLEAN, mkl : BOOLEAN, cudss : BOOLEAN,
     openmp : BOOLEAN, float32 : BOOLEAN, extraverbose : BOOLEAN,
     gpu_atrans : BOOLEAN, int32 : BOOLEAN, blas64 : BOOLEAN]

NoRun ==
    /\ define_macros = << >>
    /\ include_dirs = << >>
    /\ ext_modules = << >>
    /\ constructed = << >>
    /\ copy = EmptyDict
    /\ infos = <<EmptyDict, EmptyDict>>
    /\ built = << >>
    /\ error = "none"
    /\ n_get_infos = 0
    /\ n_get_info = 0
    /\ n_pkgconfig = 0

SetDepEnv(e) ==
    /\ env_lib_dirs = e.env_lib_dirs
    /\ env_libs = e.env_libs
    /\ have_distutils = e.have_distutils
    /\ sysinfo = e.sysinfo
    /\ pkgout = e.pkgout

\* a run of install_scs: the module level code has parsed the flags
Init ==
    /\ raw_argv = << >>
    /\ sys_argv = << >>
    /\ unknown = << >>
    /\ args \in Flags
    /\ \E h \in Hosts : platform = h[1] /\ cuda_path = h[2]
    /\ \E e \in DepEnvs : SetDepEnv(e)
    /\ pc = "install"
    /\ NoRun

Next ==
    \/ InstallBase
    \/ GpuBranch
    \/ MklBranch
    \/ CudssBranch
    \/ CallSetup
    \/ FinalizeOptions
    \/ BuildExtension
    \/ SetupReturns

Spec == Init /\ [][Next]_vars

(***************************************************************************)
(* The module level code alone: the flags are parsed and sys.argv is cut   *)
(* (lines 90-99).                                                          *)
(***************************************************************************)
ArgTokens ==
    {"build_ext", "--inplace", SCS_ARG_MARK, "--gpu", "--mkl",
     "--no-gpu-atrans", "--int"}

DefaultSysInfoNone ==
    [blas_opt |-> EmptyDict, blas |-> EmptyDict,
     lapack_opt |-> EmptyDict, lapack |-> EmptyDict]

InitArgv ==
    /\ raw_argv \in {<<"setup.py">> \o t : t \in SeqOf(ArgTokens, MaxArgs)}
    /\ sys_argv = raw_argv
    /\ unknown = << >>
    /\ args = ParseKnownArgs(<<"setup.py">>)
    /\ platform = "Linux" /\ cuda_path = ""
    /\ SetDepEnv([env_lib_dirs |-> "", env_libs |-> << >>,
                  have_distutils |-> TRUE, sysinfo |-> DefaultSysInfo,
                  pkgout |-> DefaultPkgOut])
    /\ pc = "parse"
    /\ NoRun

\* lines 90-99
ParseArgv ==
    /\ pc = "parse"
    /\ args' = ParseKnownArgs(sys_argv)
    /\ unknown' = UnknownArgs(sys_argv)
    /\ sys_argv' = StripScsArgs(sys_argv)
    /\ pc' = "parsed"
    /\ UNCHANGED <<raw_argv, inputVars, define_macros, include_dirs,
                   ext_modules, constructed, copy, infos, built, error,
                   n_get_infos, n_get_info, n_pkgconfig>>

NextArgv == ParseArgv

SpecArgv == InitArgv /\ [][NextArgv]_vars

(***************************************************************************)
(* One call of get_infos, over every value of BLAS_LAPACK_LIBS.            *)
(***************************************************************************)
EnvChars == {"m", "k", "l", ":"}

FailingPkgOut ==
    [blas   |-> [retcode |-> 0, output |-> << <<"-l", N_blas>> >>],
     lapack |-> [retcode |-> 1, output |-> << >>]]

InitInfos ==
    /\ raw_argv = << >>
    /\ sys_argv = << >>
    /\ unknown = << >>
    /\ args = ParseKnownArgs(<<"setup.py">>)
    /\ platform = "Linux" /\ cuda_path = ""
    /\ env_libs \in SeqOf(EnvChars, MaxEnvLen)
    /\ env_lib_dirs \in {"", "/opt/lib"}
    /\ have_distutils \in BOOLEAN
    /\ sysinfo \in {DefaultSysInfo, DefaultSysInfoNone}
    /\ pkgout \in {DefaultPkgOut, FailingPkgOut}
    /\ pc = "resolve"
    /\ NoRun

\* get_infos() called once, lines 115-151
Resolve ==
    /\ pc = "resolve"
    /\ Detect(GetInfos)
    /\ error' = IF GetInfos.ok THEN "none" ELSE "Exception"
    /\ pc' = "resolved"
    /\ UNCHANGED <<argvVars, args, inputVars, define_macros, include_dirs,
                   ext_modules, constructed, copy, built>>

NextInfos == Resolve

SpecInfos == InitInfos /\ [][NextInfos]_vars

(***************************************************************************)
(* Properties.                                                             *)
(***************************************************************************)
Names(exts) == [i \in DOMAIN exts |-> exts[i].name]

HasMacro(ext, m) == \E i \in DOMAIN ext.define_macros : ext.define_macros[i][1] = m

\* the library names of a resolved pair, both slots merged
MergedLibraries(r) == Pop(r.blas, "libraries") \o Pop(r.lapack, "libraries")

HandedOver == pc \in {"finalize", "build", "done"}

\* C1: whenever install_scs reaches setup(), the extensions it hands over are
\* _scs_direct, _scs_indirect, then _scs_gpu iff gpu, then _scs_mkl iff mkl,
\* then _scs_cudss iff cudss, in that order.
C1_SpecList ==
    /\ HandedOver => constructed # << >>
    /\ constructed # << >> =>
          Names(constructed) =
              <<"_scs_direct", "_scs_indirect">>
              \o (IF args.gpu THEN <<"_scs_gpu">> ELSE << >>)
              \o (IF args.mkl THEN <<"_scs_mkl">> ELSE << >>)
              \o (IF args.cudss THEN <<"_scs_cudss">> ELSE << >>)

C1_Witness ==
    /\ pc = "done"
    /\ args.gpu /\ args.mkl /\ args.cudss
    /\ Len(constructed) = 5

\* C2: every extension install_scs builds has the macro DLONG iff int32 is
\* false and gpu is false; the gpu extension never has it.
C2_Dlong ==
    \A i \in DOMAIN ext_modules :
        HasMacro(ext_modules[i], "DLONG") <=> (~args.int32 /\ ~args.gpu)

C2_Witness ==
    /\ pc = "done"
    /\ args.gpu /\ ~args.int32
    /\ \E i \in DOMAIN ext_modules :
          ext_modules[i].name = "_scs_gpu" /\ ~HasMacro(ext_modules[i], "DLONG")

\* C3: GPU_TRANSPOSE_MAT is in the gpu extension iff gpu_atrans, and in no
\* other extension.
C3_GpuTransposeOnlyGpu ==
    \A i \in DOMAIN constructed :
        IF constructed[i].name = "_scs_gpu"
        THEN HasMacro(constructed[i], "GPU_TRANSPOSE_MAT") <=> args.gpu_atrans
        ELSE ~HasMacro(constructed[i], "GPU_TRANSPOSE_MAT")

\* C4: with mkl set and no name containing "mkl" in the resolved blas and
\* lapack libraries, install_scs raises before the mkl extension is built and
\* before anything is handed to setup(): nothing is emitted, nothing compiled.
C4_MklFailFast ==
    (args.mkl /\ GetInfos.ok /\ ~AnyMkl(MergedLibraries(GetInfos))) =>
        /\ pc \in {"install", "gpu", "mkl", "aborted"}
        /\ constructed = << >>
        /\ built = << >>
        /\ \A i \in DOMAIN ext_modules : ext_modules[i].name # "_scs_mkl"

C4_Witness ==
    /\ args.mkl
    /\ pc = "aborted" /\ error = "ValueError"
    /\ MergedLibraries(GetInfos) = <<N_blas, N_lapack>>
    /\ Len(ext_modules) >= 2

\* s.join(parts)
RECURSIVE Join(_, _)
Join(parts, sep) ==
    IF Len(parts) = 1
    THEN parts[1]
    ELSE parts[1] \o <<sep>> \o Join(Tail(parts), sep)

\* C5: with BLAS_LAPACK_LIBS non-empty, get_infos returns as libraries the
\* value cut at every ":", in order, and calls neither get_info nor pkgconfig;
\* the same precedence holds with only BLAS_LAPACK_LIB_PATHS set.
C5_EnvPrecedence ==
    (pc = "resolved" /\ (env_libs # << >> \/ env_lib_dirs # "")) =>
        /\ error = "none"
        /\ n_get_info = 0
        /\ n_pkgconfig = 0
        /\ env_libs # << >> =>
              /\ "libraries" \in DOMAIN infos[1]
              /\ Join(infos[1]["libraries"], ":") = env_libs
              /\ \A i \in DOMAIN infos[1]["libraries"] :
                    ":" \notin Range(infos[1]["libraries"][i])
        /\ env_libs = << >> => "libraries" \notin DOMAIN infos[1]

C5_Witness ==
    /\ pc = "resolved"
    /\ env_lib_dirs = ""
    /\ env_libs = <<"m", ":", "k", "l">>
    /\ infos[1]["libraries"] = << <<"m">>, <<"k", "l">> >>
    /\ ~have_distutils
    /\ pkgout = FailingPkgOut

\* C6: in one run get_infos does its detection work at most once; the mkl
\* check of install_scs and finalize_options share one result.
C6_DetectOnce == n_get_infos <= 1

\* C7: no build_extension call precedes or follows a fatal detection or
\* validation failure.
C7_NoBuildWithFailure == error # "none" => built = << >>

C7_Witness ==
    /\ error = "Exception"
    /\ pc = "aborted"
    /\ Len(constructed) >= 2

FlagsAfterMark(argv) ==
    \A i \in DOMAIN argv :
        argv[i] \in SolverFlags => \E j \in 1..(i - 1) : argv[j] = SCS_ARG_MARK

\* C8: with the marker present and every solver flag after it, sys.argv is
\* left as the tokens before the first marker, in order: no marker, no solver
\* flag, the unknown tokens kept.
C8_ArgvPrefix ==
    (pc = "parsed" /\ SCS_ARG_MARK \in Range(raw_argv) /\ FlagsAfterMark(raw_argv)) =>
        /\ \E n \in 0..(Len(raw_argv) - 1) :
              /\ sys_argv = [i \in 1..n |-> raw_argv[i]]
              /\ raw_argv[n + 1] = SCS_ARG_MARK
        /\ SCS_ARG_MARK \notin Range(sys_argv)
        /\ Range(sys_argv) \cap SolverFlags = {}

C8_Witness ==
    /\ pc = "parsed"
    /\ raw_argv = <<"setup.py", "--inplace", SCS_ARG_MARK, "--gpu">>
    /\ sys_argv = <<"setup.py", "--inplace">>
    /\ args.gpu

MergedFields ==
    {"define_macros", "library_dirs", "libraries", "extra_link_args",
     "extra_compile_args"}

InfosNonEmpty == DOMAIN infos[1] # {} \/ DOMAIN infos[2] # {}

\* what finalize_options adds to a list of an extension, from the pair that
\* get_infos returned
Addition(k) ==
    (IF k = "define_macros" THEN << <<"USE_LAPACK", "None">> >> ELSE << >>)
    \o Pop(infos[1], k) \o Pop(infos[2], k)

MergedInto(i) ==
    \A k \in MergedFields :
        ext_modules[i][k] = constructed[i][k] \o Addition(k)

NotMergedInto(i) ==
    \A k \in MergedFields : ext_modules[i][k] = constructed[i][k]

\* C9, as claimed: with non-empty blas/lapack info, build_extension appends
\* the merged fields to the direct, indirect, mkl and cudss extensions and
\* leaves the gpu extension as install_scs constructed it.
C9_GpuLeftAlone ==
    (pc \in {"build", "done"} /\ InfosNonEmpty) =>
        \A i \in 1..Len(built) :
            IF ext_modules[i].name = "_scs_gpu"
            THEN NotMergedInto(i)
            ELSE MergedInto(i)

\* C9, amended: with non-empty blas/lapack info, build_extension appends the
\* merged fields to every extension it is run for, the gpu extension
\* included; an extension it has not been run for yet is as constructed.
C9_AllMerged ==
    (pc \in {"build", "done"} /\ InfosNonEmpty) =>
        /\ \A i \in 1..Len(built) : MergedInto(i)
        /\ \A i \in (Len(built) + 1)..Len(ext_modules) : ext_modules[i] = constructed[i]

C9_Witness ==
    /\ pc = "done"
    /\ args.gpu
    /\ InfosNonEmpty
    /\ \E i \in 1..Len(built) :
          /\ ext_modules[i].name = "_scs_gpu"
          /\ ext_modules[i].libraries = Libraries \o <<N_cudart, N_cublas, N_cusparse, N_mkl_rt>>

\* C10: with mkl set and a name containing "mkl" among the merged libraries
\* of the resolved pair, the MKL check passes and _scs_mkl is built with
\* PY_MKL, however the pair was resolved.
C10_MklAccepted ==
    (args.mkl /\ GetInfos.ok /\ AnyMkl(MergedLibraries(GetInfos))) =>
        /\ error # "ValueError"
        /\ pc \in {"cudss", "setup"} =>
              \E i \in DOMAIN ext_modules :
                  /\ ext_modules[i].name = "_scs_mkl"
                  /\ HasMacro(ext_modules[i], "PY_MKL")

====
